---- MODULE Spec2Model ----
(***************************************************************************)
(* A model of the opteryx query engine's client facade (Connection,        *)
(* Cursor), its query_planner pipeline driver and some of its operators.   *)
(*                                                                         *)
(* The module holds several specifications over one set of variables; a    *)
(* specification leaves the variables of the other parts at their idle     *)
(* values:                                                                 *)
(*   SpecCursor   Connection.__init__, Cursor.execute, query_planner       *)
(*   SpecJoin     JoinNode.__init__, JoinNode.execute                      *)
(*   SpecCache    DiskConnector.read_dataset / read_blob behind the cache  *)
(*   SpecAggregate  AggregateNode.execute                                  *)
(*   SpecExit     ExitNode.execute                                         *)
(*   SpecProjection  ProjectionNode.__init__, ProjectionNode.execute       *)
(*   SpecFunctionDataset  FunctionDatasetNode.execute                      *)
(*   SpecMabel    MabelPartitionScheme.get_blobs_in_partition              *)
(*   SpecGroup    AggregateAndGroupNode.__init__                           *)
(*   SpecOperators  one operator of any kind: wired, then pulled           *)
(*   SpecConnector  DiskConnector.read_dataset, get_dataset_schema         *)
(***************************************************************************)
EXTENDS Integers, Sequences, FiniteSets, TLC

\* ------------------------------------------------------------------ bounds

\* calls of execute made on the one cursor of a run
MaxCalls == 2
\* statements in one operation (separated by ";")
MaxStmts == 2

\* batches a producer of an operator yields before it ends
MaxBatches == 2
\* rows of one batch
MaxBatchRows == 1

\* blobs of the dataset a query reads
MaxBlobs == 6
\* queries run one after the other against the one cache
MaxQueries == 2

\* aggregates of an ungrouped Aggregate
MaxAggregates == 2

\* columns of a projection
MaxColumns == 2

\* blobs in the listing of a day
MaxListed == 3

\* entries of a GROUP BY
MaxGroups == 2

\* the most producers an operator is wired to
MaxProducers == 3

\* the most files under a dataset's directory
MaxFiles == 2

\* ---------------------------------------------------------------- constants

None == "None"

\* opteryx.constants.permissions.PERMISSIONS, the fixed permission vocabulary
PERMISSIONS == {"Query", "Explain"}

\* what a caller may present as permissions: None, or a set of words of the
\* vocabulary and of one word that is not of it
PresentedWords == PERMISSIONS \cup {"Admin"}
Presentable ==
    {[isNone |-> TRUE, words |-> {}]}
        \cup {[isNone |-> FALSE, words |-> w] : w \in SUBSET PresentedWords}

\* the top-level kind of a parsed statement (the first key of its AST); Drop is
\* a kind the parser knows and the vocabulary does not hold
Kinds == {"Query", "Explain", "Drop"}

\* the operations a caller may hand to execute: None, the empty string, or SQL
\* text that holds 1..MaxStmts statements
StmtSeqs == UNION {[1..n -> Kinds] : n \in 1..MaxStmts}
Operations ==
    {[text |-> None, stmts |-> <<>>], [text |-> "", stmts |-> <<>>]}
        \cup {[text |-> "sql", stmts |-> s] : s \in StmtSeqs}

NoOperation == [text |-> None, stmts |-> <<>>]

VARIABLES
    \* Connection
    connState,      \* "none" before construction, then "open" or "failed"
    presented,      \* the permissions Connection.__init__ was called with
    permissions,    \* Connection.permissions
    history,        \* Connection.context.history: <<operation text, flag>> entries
    \* Cursor
    cursor,         \* [_query, _plan, _rows, _schema]
    \* the call of execute in progress
    pc,             \* position of the call: "idle", or the stage about to run
    api,            \* "execute" or "execute_to_arrow"
    operation,      \* the call's operation
    k,              \* the statement the planner is at (1-based)
    results,        \* _inner_execute's local `results` (0 is None)
    log,            \* the stages the last call ran, in order: <<stage, statement>>
    error,          \* what the last finished call raised ("none": it returned)
    ncalls,         \* calls of execute made
    accepted        \* calls that passed _inner_execute's two guards

cursorVars ==
    <<connState, presented, permissions, history, cursor, pc, api, operation, k, results,
      log, error, ncalls, accepted>>

VARIABLES
    \* JoinNode
    jScenario,      \* "any", or "planets": the join of the planets self-join query
    jConfig,        \* the configuration JoinNode.__init__ was called with
    jpc,            \* "new", then "rejected" (__init__ raised) or the place of
                    \* execute: "right", "columns", "left", "done", "failed"
    jError,         \* what __init__ or execute raised ("none": nothing)
    jRightPulls,    \* batches pulled from the right producer
    jRightTable,    \* the rows of the right batches pulled, concatenated
    jLeftPulls,     \* batches pulled from the left producer
    jLeft,          \* the rows of the left batches pulled, batch by batch
    jColumns,       \* <<left_column, right_column>> once resolved
    jOut            \* the batches execute yielded, in order

joinVars ==
    <<jScenario, jConfig, jpc, jError, jRightPulls, jRightTable, jLeftPulls,
      jLeft, jColumns, jOut>>

VARIABLES
    \* the blob cache and the queries that read a dataset through it
    cN,             \* the blobs of the dataset: 1..cN, listed in this order
    cStore,         \* the keys the cache holds (the value of a key is its blob)
    cpc,            \* "idle", or "reading": a query is reading the dataset
    cQuery,         \* the query that reads, or read last: [hasCache, noCache, sub]
    cPos,           \* blobs the query has read
    cHits,          \* its statistics' cache_hits
    cMisses,        \* its statistics' cache_misses
    cPrev           \* the queries that ended: [hasCache, noCache, sub, hits, misses]

cacheVars == <<cN, cStore, cpc, cQuery, cPos, cHits, cMisses, cPrev>>

VARIABLES
    \* AggregateNode
    aAggregates,    \* self.aggregates
    apc,            \* "new", "pull", "emit", "done", "failed"
    aBatches,       \* num_rows of the batches pulled from the producer, in order
    aOut,           \* the batches execute yielded, in order
    aError          \* what execute raised ("none": nothing)

aggVars == <<aAggregates, apc, aBatches, aOut, aError>>

VARIABLES
    \* ExitNode
    xColumns,       \* self.columns, config["projection"]
    xInput,         \* the column names of the producer's batches
    xpc,            \* "new", "created", "running", "done", "failed"
    xPulls,         \* batches pulled from the producer
    xOut,           \* the batches execute yielded, in order
    xError          \* what execute raised ("none": nothing)

exitVars == <<xColumns, xInput, xpc, xPulls, xOut, xError>>

VARIABLES
    \* ProjectionNode
    pProjection,    \* self.projection: the requested identities
    pEvaluations,   \* self.evaluations: the columns that are not IDENTIFIERs
    pInput,         \* the column names of the producer's batches
    ppc,            \* "new", "running", "done", "failed"
    pIn,            \* the batches pulled from the producer, in order
    pOut,           \* the batches execute yielded, in order
    pError          \* what execute raised ("none": nothing)

projVars == <<pProjection, pEvaluations, pInput, ppc, pIn, pOut, pError>>

VARIABLES
    \* FunctionDatasetNode
    fConfig,        \* self.parameters, the node's config
    fpc,            \* "new", "created", "yielded", "done", "failed"
    fOut,           \* the batches execute yielded, in order
    fRowsRead,      \* self.statistics.rows_read
    fColumnsRead,   \* self.statistics.columns_read
    fError          \* what execute raised ("none": nothing)

funcVars == <<fConfig, fpc, fOut, fRowsRead, fColumnsRead, fError>>

VARIABLES
    \* MabelPartitionScheme.get_blobs_in_partition
    mListing,       \* what blob_list_getter returns for the day's prefix
    mStart,         \* the hour of start_date
    mEnd,           \* the hour of end_date
    mpc,            \* "new", "running", "done", "failed"
    mHour,          \* the next segment_timeslice of hourly_timestamps
    mSeen,          \* seen
    mOut,           \* the blob names yielded, in order, each with its hour
    mError          \* what the generator raised ("none": nothing)

mabelVars == <<mListing, mStart, mEnd, mpc, mHour, mSeen, mOut, mError>>

VARIABLES
    \* AggregateAndGroupNode
    gConfig,        \* config["groups"] and config["projection"]
    gpc,            \* "new", then "failed" or the place of execute: "built",
                    \* "emit", "done"
    gGroups,        \* self.groups
    gGroupBy,       \* self.group_by_columns, as a set
    gError,         \* what __init__ or execute raised ("none": nothing)
    gBatches,       \* num_rows of the batches pulled from the producer
    gOut            \* the batches execute yielded, in order

groupVars == <<gConfig, gpc, gGroups, gGroupBy, gError, gBatches, gOut>>

VARIABLES
    \* the query's cancellation token
    cancelled       \* the token is tripped

tokenVars == <<cancelled>>

VARIABLES
    \* the producers of the operator under execution (self._producers)
    wired,          \* the plan has wired the operator to its producers
    producers       \* len(self._producers)

wiringVars == <<wired, producers>>


VARIABLES
    \* DiskConnector
    dDataset,       \* the dataset's path on disk: is it a directory, its files
    dMetastore,     \* read_schema_from_metastore returns a schema
    dpc,            \* "new", "ready", "reading", "done", "failed"
    dPos,           \* how many of the blob names read_dataset has gone through
    dYielded,       \* the blobs read_dataset yielded, decoded, in order
    dSchema,        \* what get_dataset_schema returned ("none": nothing)
    dError          \* what the call raised to its caller ("none": nothing)

connectorVars == <<dDataset, dMetastore, dpc, dPos, dYielded, dSchema, dError>>


vars == <<cursorVars, joinVars, cacheVars, aggVars, exitVars, projVars,
      funcVars, mabelVars, groupVars, tokenVars, wiringVars,
      connectorVars>>

\* the variables a specification leaves alone
notCursor == <<joinVars, cacheVars, aggVars, exitVars, projVars, funcVars,
      mabelVars, groupVars, tokenVars, wiringVars, connectorVars>>
notJoin == <<cursorVars, cacheVars, aggVars, exitVars, projVars, funcVars,
      mabelVars, groupVars, tokenVars, wiringVars, connectorVars>>
notCache == <<cursorVars, joinVars, aggVars, exitVars, projVars, funcVars,
      mabelVars, groupVars, tokenVars, wiringVars, connectorVars>>
notAggregate == <<cursorVars, joinVars, cacheVars, exitVars, projVars,
      funcVars, mabelVars, groupVars, tokenVars, wiringVars,
      connectorVars>>
notExit == <<cursorVars, joinVars, cacheVars, aggVars, projVars, funcVars,
      mabelVars, groupVars, tokenVars, wiringVars, connectorVars>>
notProjection == <<cursorVars, joinVars, cacheVars, aggVars, exitVars, funcVars,
      mabelVars, groupVars, tokenVars, wiringVars, connectorVars>>
notFunctionDataset == <<cursorVars, joinVars, cacheVars, aggVars, exitVars, projVars,
      mabelVars, groupVars, tokenVars, wiringVars, connectorVars>>
notMabel == <<cursorVars, joinVars, cacheVars, aggVars, exitVars, projVars,
      funcVars, groupVars, tokenVars, wiringVars, connectorVars>>
notGroup == <<cursorVars, joinVars, cacheVars, aggVars, exitVars, projVars,
      funcVars, mabelVars, tokenVars, wiringVars, connectorVars>>
notToken == <<cursorVars, joinVars, cacheVars, aggVars, exitVars, projVars,
      funcVars, mabelVars, groupVars, wiringVars, connectorVars>>
notWiring == <<cursorVars, joinVars, cacheVars, aggVars, exitVars, projVars,
      funcVars, mabelVars, groupVars, tokenVars, connectorVars>>
notConnector == <<cursorVars, joinVars, cacheVars, aggVars, exitVars, projVars,
      funcVars, mabelVars, groupVars, tokenVars, wiringVars>>

\* ------------------------------------------------- Connection.__init__

\* the mutant: the subset check is dropped
ConnectionInit_NoSubsetCheck(given) ==
    LET p == IF given.isNone THEN PERMISSIONS ELSE given.words
    IN  IF p \cap PERMISSIONS = {}
        THEN [raised |-> "PermissionsError", permissions |-> {}]
        ELSE [raised |-> "none", permissions |-> p]

\* Connection.__init__: the permissions kept, or the error raised
ConnectionInit(given) ==
    LET p == IF given.isNone THEN PERMISSIONS ELSE given.words
    IN  IF p \cap PERMISSIONS = {}
        THEN [raised |-> "PermissionsError", permissions |-> {}]
        ELSE IF ~(p \subseteq PERMISSIONS)
        THEN [raised |-> "PermissionsError", permissions |-> {}]
        ELSE [raised |-> "none", permissions |-> p]

\* Cursor.__init__
NewCursor == [_query |-> None, _plan |-> 0, _rows |-> <<>>, _schema |-> <<>>]

\* opteryx.connect(permissions=...) followed by connection.cursor()
Connect(p) ==
    /\ connState = "none"
    /\ presented' = p
    /\ LET c == ConnectionInit(p)
       IN  /\ connState' = IF c.raised = "none" THEN "open" ELSE "failed"
           /\ permissions' = c.permissions
           /\ error' = c.raised
    /\ cursor' = NewCursor
    /\ UNCHANGED <<history, pc, api, operation, k, results, log, ncalls, accepted>>

\* ------------------------------------------------- Cursor._inner_execute

\* the mutant: the history entry is written before the statement is looked at
InnerExecuteGuard_NoEmptyCheck(op, query) ==
    IF query # None THEN "CursorInvalidStateError" ELSE "none"

\* the two guards of _inner_execute: what they raise ("none": the call goes on)
InnerExecuteGuard(op, query) ==
    IF op.text = None \/ op.text = ""
    THEN "MissingSqlStatement"
    ELSE IF query # None THEN "CursorInvalidStateError" ELSE "none"

\* a call of execute or execute_to_arrow: the guards, the history entry and the
\* creation of the query_planner generator, which runs nothing until it is
\* pulled
Execute(a, op) ==
    /\ connState = "open"
    /\ pc = "idle"
    /\ ncalls < MaxCalls
    /\ ncalls' = ncalls + 1
    /\ api' = a
    /\ operation' = op
    /\ LET g == InnerExecuteGuard(op, cursor._query)
       IN  IF g # "none"
           THEN /\ error' = g
                /\ log' = <<>>
                /\ UNCHANGED <<history, pc, k, results, accepted>>
           ELSE /\ history' = Append(history, <<op.text, TRUE>>)
                /\ pc' = "sql_rewrite"
                /\ k' = 0
                /\ results' = 0
                /\ log' = <<>>
                /\ error' = "running"
                /\ accepted' = accepted + 1
    /\ UNCHANGED <<connState, presented, permissions, cursor>>

\* ------------------------------------------------- query_planner

\* what a failing stage raises; the parser's ValueError is wrapped in SqlError
StageError(stage) ==
    CASE stage = "sql_rewrite" -> "SyntaxError"
      [] stage = "parse" -> "SqlError"
      [] stage = "ast_rewrite" -> "ParameterError"
      [] stage = "logical" -> "UnsupportedSyntaxError"
      [] stage = "bind" -> "ColumnNotFoundError"
      [] stage = "physical" -> "UnsupportedSyntaxError"
      [] OTHER -> "Internal"

\* line 86: `query_type not in connection.permissions` raises
PermissionCheck(kind, perms) == kind \in perms

\* the mutant: the binder runs before the permission check
StageAfter_BindFirst(stage) ==
    CASE stage = "sql_rewrite" -> "parse"
      [] stage = "parse" -> "ast_rewrite"
      [] stage = "ast_rewrite" -> "logical"
      [] stage = "logical" -> "bind"
      [] stage = "bind" -> "perm"
      [] stage = "perm" -> "physical"
      [] stage = "physical" -> "yield"
      [] stage = "yield" -> "plan_execute"
      [] OTHER -> "logical"

\* the mutant: the planner goes on to the next statement before the cursor
\* has executed the plan it was handed
StageAfter_NoExecute(stage) ==
    CASE stage = "sql_rewrite" -> "parse"
      [] stage = "parse" -> "ast_rewrite"
      [] stage = "ast_rewrite" -> "logical"
      [] stage = "logical" -> "perm"
      [] stage = "perm" -> "bind"
      [] stage = "bind" -> "physical"
      [] stage = "physical" -> "yield"
      [] stage = "yield" -> "logical"
      [] OTHER -> "logical"

\* the order of query_planner's stages (lines 63-109) and of the cursor's loop
\* (connection.py lines 155-156), which pulls the planner again after it ran
\* the plan
StageAfter(stage) ==
    CASE stage = "sql_rewrite" -> "parse"
      [] stage = "parse" -> "ast_rewrite"
      [] stage = "ast_rewrite" -> "logical"
      [] stage = "logical" -> "perm"
      [] stage = "perm" -> "bind"
      [] stage = "bind" -> "physical"
      [] stage = "physical" -> "yield"
      [] stage = "yield" -> "plan_execute"
      [] OTHER -> "logical"

\* the exception leaves query_planner, _inner_execute and execute: nothing of
\* the cursor is assigned
Raise(e) ==
    /\ pc' = "idle"
    /\ error' = e
    /\ UNCHANGED <<connState, presented, permissions, history, cursor, api, operation, k,
                   results, ncalls, accepted>>

\* a stage of the whole operation ran: do_sql_rewrite, parse_sql, do_ast_rewriter
OperationStage(stage) ==
    /\ pc = stage
    /\ log' = Append(log, <<stage, 0>>)
    /\ \/ /\ pc' = StageAfter(stage)
          /\ UNCHANGED <<connState, presented, permissions, history, cursor, api, operation,
                         k, results, error, ncalls, accepted>>
       \/ Raise(StageError(stage))

SqlRewrite == OperationStage("sql_rewrite")
Parse == OperationStage("parse")
AstRewrite == OperationStage("ast_rewrite")

\* do_logical_planning_phase is pulled for the next statement; when it has no
\* more, the generator ends and the cursor's loop is left
LogicalPlan ==
    /\ pc = "logical"
    /\ IF k < Len(operation.stmts)
       THEN /\ log' = Append(log, <<"logical", k + 1>>)
            /\ \/ /\ k' = k + 1
                  /\ pc' = StageAfter("logical")
                  /\ UNCHANGED <<connState, presented, permissions, history, cursor, api,
                                 operation, results, error, ncalls, accepted>>
               \/ Raise(StageError("logical"))
       ELSE /\ pc' = "finish"
            /\ UNCHANGED <<connState, presented, permissions, history, cursor, api, operation,
                           k, results, log, error, ncalls, accepted>>

\* lines 85-91: the permission check of statement k
PermCheck ==
    /\ pc = "perm"
    /\ log' = Append(log, <<"perm", k>>)
    /\ IF PermissionCheck(operation.stmts[k], permissions)
       THEN /\ pc' = StageAfter("perm")
            /\ UNCHANGED <<connState, presented, permissions, history, cursor, api, operation,
                           k, results, error, ncalls, accepted>>
       ELSE Raise("PermissionsError")

\* lines 100-105: do_bind_phase
Bind ==
    /\ pc = "bind"
    /\ log' = Append(log, <<"bind", k>>)
    /\ \/ /\ pc' = StageAfter("bind")
          /\ UNCHANGED <<connState, presented, permissions, history, cursor, api, operation,
                         k, results, error, ncalls, accepted>>
       \/ Raise(StageError("bind"))

\* line 108: create_physical_plan
PhysicalPlan ==
    /\ pc = "physical"
    /\ log' = Append(log, <<"physical", k>>)
    /\ \/ /\ pc' = StageAfter("physical")
          /\ UNCHANGED <<connState, presented, permissions, history, cursor, api, operation,
                         k, results, error, ncalls, accepted>>
       \/ Raise(StageError("physical"))

\* line 109 and connection.py line 155: the plan is yielded and the cursor's
\* loop assigns it to self._plan
YieldPlan ==
    /\ pc = "yield"
    /\ log' = Append(log, <<"yield", k>>)
    /\ cursor' = [cursor EXCEPT !._plan = k]
    /\ pc' = StageAfter("yield")
    /\ UNCHANGED <<connState, presented, permissions, history, api, operation, k, results,
                   error, ncalls, accepted>>

\* the mutant: a plan's results are written to the cursor as soon as it ran
RowsAfterPlan_Stored(rows, r) == IF r = 0 THEN rows ELSE <<"rows", r>>

\* the cursor's rows after the loop body ran a plan: the results stay in the
\* local variable
RowsAfterPlan(rows, r) == rows

\* connection.py line 156: results = self._plan.execute(); the plan returns
\* its result set (the statement's number names it) or None, or raises
PlanExecute ==
    /\ pc = "plan_execute"
    /\ log' = Append(log, <<"execute", k>>)
    /\ \/ \E r \in {0, k} :
            /\ results' = r
            /\ cursor' = [cursor EXCEPT !._rows = RowsAfterPlan(cursor._rows, r)]
            /\ pc' = StageAfter("plan_execute")
            /\ UNCHANGED <<connState, presented, permissions, history, api, operation, k,
                           error, ncalls, accepted>>
       \/ Raise("DatasetNotFoundError")

\* orso's converters.from_arrow: the rows and the schema of a result set
from_arrow(r) == <<(<<"rows", r>>), (<<"schema", r>>)>>

\* history[-1] rebuilt with True at index 1 (lines 160-163)
MarkSuccess(h) ==
    [h EXCEPT ![Len(h)] = <<h[Len(h)][1], TRUE>>]

\* connection.py lines 158-164 and 166-177: after the loop
Finish ==
    /\ pc = "finish"
    /\ pc' = "idle"
    /\ IF results # 0
       THEN /\ history' = MarkSuccess(history)
            /\ IF api = "execute"
               THEN /\ cursor' = [cursor EXCEPT !._rows = from_arrow(results)[1],
                                               !._schema = from_arrow(results)[2]]
                    /\ error' = "none"
               ELSE /\ error' = "none"
                    /\ UNCHANGED cursor
       ELSE /\ UNCHANGED <<history, cursor>>
            \* execute returns; execute_to_arrow hands None to concat_tables
            /\ error' = IF api = "execute" THEN "none" ELSE "TypeError"
    /\ UNCHANGED <<connState, presented, permissions, api, operation, k, results, log,
                   ncalls, accepted>>

InitCursor ==
    /\ connState = "none"
    /\ presented = [isNone |-> TRUE, words |-> {}]
    /\ permissions = {}
    /\ history = <<>>
    /\ cursor = NewCursor
    /\ pc = "idle"
    /\ api = "execute"
    /\ operation = NoOperation
    /\ k = 0
    /\ results = 0
    /\ log = <<>>
    /\ error = "none"
    /\ ncalls = 0
    /\ accepted = 0

\* ------------------------------------------------- the producers of an operator

ProducerCounts == 0..MaxProducers

\* the plan wires a constructed operator to n producers; the constructors
\* take (properties, **config) and never see the producers
set_producers(n) ==
    /\ ~wired
    /\ wired' = TRUE
    /\ producers' = n

IdleWiring ==
    /\ wired = FALSE
    /\ producers = 0

\* the operator is wired to a number of producers other than the n it expects
Miswired(n) == wired /\ producers # n

\* ------------------------------------------------- JoinNode

\* the join keys of the rows; a row of a producer is modelled by its key
Keys == {1, 2}
\* the null of an outer join's missing side
Null == 0

RECURSIVE SeqsUpTo(_, _)
\* the sequences over S of length n or less
SeqsUpTo(S, n) ==
    IF n = 0 THEN {<<>>}
    ELSE LET shorter == SeqsUpTo(S, n - 1)
         IN  shorter \cup {Append(q, x) : q \in shorter, x \in S}

\* the batches a producer may yield
Batches == SeqsUpTo(Keys, MaxBatchRows)

\* the planets sample relation: 9 rows, (name, id) distinct in each
NumPlanets == 9
Planets == [i \in 1..NumPlanets |-> i]

\* the end of a producer's stream
End == [end |-> TRUE, rows |-> <<>>]
\* a batch of a producer's stream
Batch(rows) == [end |-> FALSE, rows |-> rows]

\* what the pull number `pulls + 1` of a producer may return
ProducerNext(scenario, pulls) ==
    IF scenario = "planets"
    THEN IF pulls = 0 THEN {Batch(Planets)} ELSE {End}
    ELSE {End} \cup (IF pulls < MaxBatches THEN {Batch(b) : b \in Batches} ELSE {})

\* the join types pyarrow's Table.join knows
ArrowJoinTypes ==
    {"inner", "left outer", "right outer", "full outer", "left semi", "left anti"}
\* the spellings of config["type"]
JoinTypes == ArrowJoinTypes \cup {"cross", "INNER", "LEFT OUTER"}

\* str.lower on the spellings above
lower(t) ==
    CASE t = "INNER" -> "inner"
      [] t = "LEFT OUTER" -> "left outer"
      [] OTHER -> t

\* the ON conditions: a comparison of the two sides' key columns, written
\* either way round
OnConditions ==
    {[left |-> "l.key", right |-> "r.key"], [left |-> "r.key", right |-> "l.key"]}
NoCondition == [left |-> None, right |-> None]
NoUsing == <<>>
UsingColumns == {<<"name", "id">>}

JoinConfigs ==
    [type : JoinTypes, on : OnConditions \cup {NoCondition},
     using : UsingColumns \cup {NoUsing}]

\* the JoinNode of SELECT * FROM $planets INNER JOIN $planets USING (name, id)
PlanetsUsingConfig == [type |-> "inner", on |-> NoCondition, using |-> <<"name", "id">>]
\* the same join written with an ON condition
PlanetsOnConfig ==
    [type |-> "inner", on |-> [left |-> "l.key", right |-> "r.key"], using |-> NoUsing]

\* JoinNode.__init__: what it raises
JoinInit(config) ==
    IF config.on = NoCondition /\ config.using = NoUsing THEN "SqlError"
    ELSE IF config.using # NoUsing /\ lower(config.type) # "left outer" THEN "SqlError"
    ELSE "none"

\* the physical planner builds the JoinNode
JoinConstruct(scenario, config) ==
    /\ jpc = "new"
    /\ jScenario' = scenario
    /\ jConfig' = config
    /\ jError' = JoinInit(config)
    /\ jpc' = IF JoinInit(config) = "none" THEN "right" ELSE "rejected"
    /\ UNCHANGED <<jRightPulls, jRightTable, jLeftPulls, jLeft, jColumns, jOut>>

\* line 81: right_node.execute() is pulled by concat_tables, batch by batch
JoinPullRight ==
    /\ jpc = "right"
    /\ wired
    /\ \E b \in ProducerNext(jScenario, jRightPulls) :
        IF producers # 2
        THEN /\ jpc' = "failed"
             /\ jError' = "SqlError"
             /\ UNCHANGED <<jScenario, jConfig, jRightPulls, jRightTable, jLeftPulls,
                            jLeft, jColumns, jOut>>
        ELSE
        IF b # End
        THEN /\ jRightPulls' = jRightPulls + 1
             /\ jRightTable' = jRightTable \o b.rows
             /\ UNCHANGED <<jScenario, jConfig, jpc, jError, jLeftPulls, jLeft,
                            jColumns, jOut>>
        ELSE \* concat_tables refuses an empty list of tables
             /\ IF jRightPulls = 0
                THEN jpc' = "failed" /\ jError' = "ArrowInvalid"
                ELSE jpc' = "columns" /\ jError' = jError
             /\ UNCHANGED <<jScenario, jConfig, jRightPulls, jRightTable, jLeftPulls,
                            jLeft, jColumns, jOut>>

\* lines 83-88: which side of the ON condition is the right table's column;
\* self._on is None when only USING was given
JoinResolveColumns ==
    /\ jpc = "columns"
    /\ IF jConfig.on = NoCondition
       THEN /\ jpc' = "failed"
            /\ jError' = "AttributeError"
            /\ UNCHANGED jColumns
       ELSE /\ jColumns' = IF jConfig.on.right = "r.key"
                           THEN <<jConfig.on.left, jConfig.on.right>>
                           ELSE <<jConfig.on.right, jConfig.on.left>>
            /\ jpc' = "left"
            /\ UNCHANGED jError
    /\ UNCHANGED <<jScenario, jConfig, jRightPulls, jRightTable, jLeftPulls, jLeft,
                   jOut>>

\* the pairs of a left row with the right rows of its key
Pairs(l, right) ==
    LET m == SelectSeq(right, LAMBDA r : r = l)
    IN  [i \in 1..Len(m) |-> <<l, m[i]>>]

RECURSIVE InnerRows(_, _)
InnerRows(left, right) ==
    IF left = <<>> THEN <<>>
    ELSE Pairs(Head(left), right) \o InnerRows(Tail(left), right)

Has(table, key) == \E i \in 1..Len(table) : table[i] = key

LeftUnmatched(left, right) ==
    LET m == SelectSeq(left, LAMBDA l : ~Has(right, l))
    IN  [i \in 1..Len(m) |-> <<m[i], Null>>]

RightUnmatched(left, right) ==
    LET m == SelectSeq(right, LAMBDA r : ~Has(left, r))
    IN  [i \in 1..Len(m) |-> <<Null, m[i]>>]

LeftOnly(left, right, matched) ==
    LET m == SelectSeq(left, LAMBDA l : Has(right, l) = matched)
    IN  [i \in 1..Len(m) |-> <<m[i]>>]

\* pyarrow's Table.join(right, keys, right_keys, join_type) on one left batch
JoinRows(type, left, right) ==
    CASE type = "inner" -> InnerRows(left, right)
      [] type = "left outer" -> InnerRows(left, right) \o LeftUnmatched(left, right)
      [] type = "right outer" -> InnerRows(left, right) \o RightUnmatched(left, right)
      [] type = "full outer" ->
            InnerRows(left, right) \o LeftUnmatched(left, right)
                \o RightUnmatched(left, right)
      [] type = "left semi" -> LeftOnly(left, right, TRUE)
      [] type = "left anti" -> LeftOnly(left, right, FALSE)

\* the mutant: the joined batch is put in front of the batches yielded so far
JoinPullLeft_Prepend ==
    /\ jpc = "left"
    /\ \E b \in ProducerNext(jScenario, jLeftPulls) :
        IF b = End
        THEN /\ jpc' = "done"
             /\ UNCHANGED <<jError, jLeftPulls, jLeft, jOut>>
        ELSE /\ jLeftPulls' = jLeftPulls + 1
             /\ jLeft' = Append(jLeft, b.rows)
             /\ IF jConfig.type \in ArrowJoinTypes
                THEN /\ jOut' = <<JoinRows(jConfig.type, b.rows, jRightTable)>> \o jOut
                     /\ UNCHANGED <<jpc, jError>>
                ELSE /\ jpc' = "failed"
                     /\ jError' = "ValueError"
                     /\ UNCHANGED jOut
    /\ UNCHANGED <<jScenario, jConfig, jRightPulls, jRightTable, jColumns>>

\* lines 90-103: the next left batch is pulled, joined and yielded; join_type
\* is handed to pyarrow as it was configured
JoinPullLeft ==
    /\ jpc = "left"
    /\ \E b \in ProducerNext(jScenario, jLeftPulls) :
        IF b = End
        THEN /\ jpc' = "done"
             /\ UNCHANGED <<jError, jLeftPulls, jLeft, jOut>>
        ELSE /\ jLeftPulls' = jLeftPulls + 1
             /\ jLeft' = Append(jLeft, b.rows)
             /\ IF jConfig.type \in ArrowJoinTypes
                THEN /\ jOut' = Append(jOut, JoinRows(jConfig.type, b.rows, jRightTable))
                     /\ UNCHANGED <<jpc, jError>>
                ELSE /\ jpc' = "failed"
                     /\ jError' = "ValueError"
                     /\ UNCHANGED jOut
    /\ UNCHANGED <<jScenario, jConfig, jRightPulls, jRightTable, jColumns>>

IdleJoin ==
    /\ jScenario = "any"
    /\ jConfig = [type |-> "inner", on |-> NoCondition, using |-> NoUsing]
    /\ jpc = "new"
    /\ jError = "none"
    /\ jRightPulls = 0
    /\ jRightTable = <<>>
    /\ jLeftPulls = 0
    /\ jLeft = <<>>
    /\ jColumns = <<>>
    /\ jOut = <<>>

RECURSIVE TotalRows(_)
\* the rows of a sequence of batches
TotalRows(batches) ==
    IF batches = <<>> THEN 0 ELSE Len(Head(batches)) + TotalRows(Tail(batches))


\* ------------------------------------------------- the blob cache

\* MemoryCache(size=5): the entries the cache of the tests holds at most
CacheSize == 5

\* the queries: run on a connection built with the cache or with cache=None,
\* reading the relation WITH(NO_CACHE) or not, in a subquery or not
Queries == [hasCache : BOOLEAN, noCache : BOOLEAN, sub : BOOLEAN]

\* the cache's set: the stores that may follow; a full cache gives up one of
\* its entries, which one is the cache's concern
CachePut(store, key) ==
    IF key \in store THEN {store}
    ELSE IF Cardinality(store) < CacheSize THEN {store \cup {key}}
    ELSE {(store \ {victim}) \cup {key} : victim \in store}

\* the mutant: the NO_CACHE directive is not looked at
ReadThru_IgnoresNoCache(hasCache, noCache, store, blob) ==
    IF ~hasCache
    THEN [hits |-> 0, misses |-> 0, stores |-> {store}]
    ELSE IF blob \in store
    THEN [hits |-> 1, misses |-> 0, stores |-> {store}]
    ELSE [hits |-> 0, misses |-> 1, stores |-> CachePut(store, blob)]

\* Cacheable.read_thru, the hook around read_blob: without a cache, or under
\* NO_CACHE, the blob is read from disk; else the cache is asked first, a hit
\* is counted, and a miss is counted, read from disk and put in the cache
ReadThru(hasCache, noCache, store, blob) ==
    IF ~hasCache \/ noCache
    THEN [hits |-> 0, misses |-> 0, stores |-> {store}]
    ELSE IF blob \in store
    THEN [hits |-> 1, misses |-> 0, stores |-> {store}]
    ELSE [hits |-> 0, misses |-> 1, stores |-> CachePut(store, blob)]

\* the mutant: read_blob without its decorator
read_blob_Undecorated(hasCache, noCache, store, blob) ==
    [hits |-> 0, misses |-> 0, stores |-> {store}]

\* DiskConnector.read_blob, decorated with the read-through hook
read_blob(hasCache, noCache, store, blob) == ReadThru(hasCache, noCache, store, blob)

\* a new connection is built with the cache (or none) and its cursor's query
\* starts to read the dataset; the statistics are new with the cursor
StartQuery(q) ==
    /\ cpc = "idle"
    /\ Len(cPrev) < MaxQueries
    /\ cpc' = "reading"
    /\ cQuery' = q
    /\ cPos' = 0
    /\ cHits' = 0
    /\ cMisses' = 0
    /\ UNCHANGED <<cN, cStore, cPrev>>

\* read_dataset's loop, lines 74-78: the next blob name is read by read_blob
ReadDataset ==
    /\ cpc = "reading"
    /\ cPos < cN
    /\ LET r == read_blob(cQuery.hasCache, cQuery.noCache, cStore, cPos + 1)
       IN  /\ cHits' = cHits + r.hits
           /\ cMisses' = cMisses + r.misses
           /\ cStore' \in r.stores
    /\ cPos' = cPos + 1
    /\ UNCHANGED <<cN, cpc, cQuery, cPrev>>

\* the blob names are exhausted: the query ends and its connection is closed
EndQuery ==
    /\ cpc = "reading"
    /\ cPos = cN
    /\ cpc' = "idle"
    /\ cPrev' = Append(cPrev, [hasCache |-> cQuery.hasCache, noCache |-> cQuery.noCache,
                               sub |-> cQuery.sub, hits |-> cHits, misses |-> cMisses])
    /\ UNCHANGED <<cN, cStore, cQuery, cPos, cHits, cMisses>>

IdleCache ==
    /\ cN = 0
    /\ cStore = {}
    /\ cpc = "idle"
    /\ cQuery = [hasCache |-> FALSE, noCache |-> FALSE, sub |-> FALSE]
    /\ cPos = 0
    /\ cHits = 0
    /\ cMisses = 0
    /\ cPrev = <<>>

\* ------------------------------------------------- AggregateNode

\* an aggregate of the SELECT list: the function (value), the node type of
\* its first parameter, and the identity of its schema column
AggregateKinds ==
    {[value |-> "COUNT", parameter |-> "WILDCARD"],
     [value |-> "COUNT", parameter |-> "IDENTIFIER"],
     [value |-> "COUNT", parameter |-> "LITERAL"],
     [value |-> "SUM", parameter |-> "IDENTIFIER"]}

\* the identity of the i-th aggregate's schema column: opaque and distinct
Identity(i) == <<"identity", i>>

\* the lists of 1..MaxAggregates aggregates
AggregateLists ==
    UNION {[1..n -> AggregateKinds] : n \in 1..MaxAggregates}

\* num_rows of the batches a producer may yield
BatchSizes == 0..MaxBatchRows

\* _is_count_star: exactly one aggregate, and it is COUNT(*)
is_count_star(aggregates) ==
    /\ Len(aggregates) = 1
    /\ aggregates[1].value = "COUNT"
    /\ aggregates[1].parameter = "WILDCARD"

RECURSIVE SumSeq(_)
\* Python's sum of a sequence of integers
SumSeq(q) == IF q = <<>> THEN 0 ELSE Head(q) + SumSeq(Tail(q))

\* a table of one row: the columns' names and the row's values
OneRow(names, values) == <<[names |-> names, values |-> values]>>

\* the mutant: the batches are counted, not their rows
count_star_Batches(num_rows, column_name) ==
    OneRow(<<column_name>>, <<Len(num_rows)>>)

\* _count_star: the table it yields for the num_rows of the batches it pulled
count_star(num_rows, column_name) ==
    OneRow(<<column_name>>, <<SumSeq(num_rows)>>)

\* the value of an aggregate other than COUNT(*) is not modelled
Opaque == -1

\* _non_group_aggregates: the keys and values of its result dict; COUNT(*) is
\* written under the key "COUNT(*)", the others under their identity
non_group_aggregates(aggregates, num_rows) ==
    [i \in 1..Len(aggregates) |->
        IF aggregates[i].value = "COUNT" /\ aggregates[i].parameter = "WILDCARD"
        THEN [key |-> <<"COUNT(*)", 0>>, value |-> num_rows]
        ELSE [key |-> Identity(i), value |-> Opaque]]

\* build_aggregations' column_map keys: the aggregates' identities
column_map_keys(aggregates) == [i \in 1..Len(aggregates) |-> Identity(i)]

\* the physical planner builds the AggregateNode
AggregateConstruct(aggregates) ==
    /\ apc = "new"
    /\ aAggregates' = aggregates
    /\ apc' = "pull"
    /\ UNCHANGED <<aBatches, aOut, aError>>

\* the producer's stream is pulled, by sum() in _count_star (line 82) or by
\* concat_tables (lines 242-244), until it ends
AggregatePull ==
    /\ apc = "pull"
    /\ wired
    /\ \/ /\ producers # 1
          /\ apc' = "failed"
          /\ aError' = "SqlError"
          /\ UNCHANGED <<aAggregates, aBatches, aOut>>
       \/ \E n \in BatchSizes :
            /\ producers = 1
            /\ Len(aBatches) < MaxBatches
            /\ aBatches' = Append(aBatches, n)
            /\ UNCHANGED <<aAggregates, apc, aOut, aError>>
       \/ /\ producers = 1
          /\ IF ~is_count_star(aAggregates) /\ aBatches = <<>>
             THEN \* concat_tables refuses an empty list of tables
                  apc' = "failed" /\ aError' = "ArrowInvalid"
             ELSE apc' = "emit" /\ aError' = aError
          /\ UNCHANGED <<aAggregates, aBatches, aOut>>

\* lines 233-237, or 260-287: the one batch is built and yielded
AggregateEmit ==
    /\ apc = "emit"
    /\ IF is_count_star(aAggregates)
       THEN /\ aOut' = Append(aOut, count_star(aBatches, Identity(1)))
            /\ apc' = "done"
            /\ UNCHANGED aError
       ELSE LET result == non_group_aggregates(aAggregates, SumSeq(aBatches))
                have == {result[i].key : i \in 1..Len(result)}
                want == column_map_keys(aAggregates)
            IN  IF \A i \in 1..Len(want) : want[i] \in have
                THEN /\ aOut' = Append(aOut,
                            OneRow(want,
                                   [i \in 1..Len(want) |->
                                       result[CHOOSE j \in 1..Len(result) :
                                            result[j].key = want[i]].value]))
                     /\ apc' = "done"
                     /\ UNCHANGED aError
                ELSE \* select() of a column the table does not hold
                     /\ apc' = "failed"
                     /\ aError' = "KeyError"
                     /\ UNCHANGED aOut
    /\ UNCHANGED <<aAggregates, aBatches>>

IdleAggregate ==
    /\ aAggregates = <<>>
    /\ apc = "new"
    /\ aBatches = <<>>
    /\ aOut = <<>>
    /\ aError = "none"

\* ------------------------------------------------- ExitNode

\* the identities of the schema columns, and the user-facing names
Identities == {"i1", "i2", "i3"}
QueryColumns == {"a", "b"}

\* a column of a projection: its schema_column.identity and its query_column
ProjectionColumns == [identity : Identities, query_column : QueryColumns]

\* the projections of 1..MaxColumns columns
Projections == UNION {[1..n -> ProjectionColumns] : n \in 1..MaxColumns}

\* the sequence q has no element twice
Distinct(q) == \A i, j \in 1..Len(q) : i # j => q[i] # q[j]

\* the column names of a producer's batches: identities, none twice
InputSchemas == {q \in SeqsUpTo(Identities, Cardinality(Identities)) : q # <<>> /\ Distinct(q)}

\* a batch: its columns in order, each with its name and the identity of the
\* column its data comes from, and its number of rows
Morsel(names, rows) ==
    [columns |-> [i \in 1..Len(names) |-> [name |-> names[i], data |-> names[i]]],
     num_rows |-> rows]

\* the names of a batch's columns
column_names(morsel) == [i \in 1..Len(morsel.columns) |-> morsel.columns[i].name]

\* pyarrow's Table.select knows every one of the names
Selectable(morsel, names) ==
    \A i \in 1..Len(names) : Has(column_names(morsel), names[i])

\* pyarrow's Table.select(names): the named columns in the order of names
select(morsel, names) ==
    [columns |-> [i \in 1..Len(names) |->
                    morsel.columns[CHOOSE j \in 1..Len(morsel.columns) :
                                        morsel.columns[j].name = names[i]]],
     num_rows |-> morsel.num_rows]

\* pyarrow's Table.rename_columns(names): the i-th column gets the i-th name
rename_columns(morsel, names) ==
    [columns |-> [i \in 1..Len(morsel.columns) |->
                    [name |-> names[i], data |-> morsel.columns[i].data]],
     num_rows |-> morsel.num_rows]

\* lines 52-56
final_columns(columns) == [i \in 1..Len(columns) |-> columns[i].identity]
final_names(columns) == [i \in 1..Len(columns) |-> columns[i].query_column]

\* the mutant: the identities are not compared
HasDuplicates_Never(columns) == FALSE

\* line 58: len(final_columns) != len(set(final_columns))
HasDuplicates(columns) == ~Distinct(final_columns(columns))

\* the physical planner builds the ExitNode over its producer and the first
\* consumer calls execute(): a generator, none of its body has run yet
ExitConstruct(columns, input) ==
    /\ xpc = "new"
    /\ xColumns' = columns
    /\ xInput' = input
    /\ xpc' = "created"
    /\ UNCHANGED <<xPulls, xOut, xError>>

\* the consumer pulls the generator: on the first pull lines 52-65 run, then
\* the loop of lines 67-71 pulls the producer, up to the next yield
ExitPull ==
    /\ xpc \in {"created", "running"}
    /\ wired
    /\ IF producers # 1
       THEN /\ xpc' = "failed"
            /\ xError' = "SqlError"
            /\ UNCHANGED <<xPulls, xOut>>
       ELSE
       IF xpc = "created" /\ HasDuplicates(xColumns)
       THEN /\ xpc' = "failed"
            /\ xError' = "SqlError"
            /\ UNCHANGED <<xPulls, xOut>>
       ELSE \E n \in BatchSizes :
            \E b \in (IF xPulls < MaxBatches THEN {Batch(Morsel(xInput, n))} ELSE {})
                        \cup {End} :
                IF b = End
                THEN /\ xpc' = "done"
                     /\ UNCHANGED <<xPulls, xOut, xError>>
                ELSE /\ xPulls' = xPulls + 1
                     /\ IF Selectable(b.rows, final_columns(xColumns))
                        THEN /\ xOut' = Append(xOut,
                                    rename_columns(select(b.rows, final_columns(xColumns)),
                                                   final_names(xColumns)))
                             /\ xpc' = "running"
                             /\ UNCHANGED xError
                        ELSE \* select() of a column the batch does not hold
                             /\ xpc' = "failed"
                             /\ xError' = "KeyError"
                             /\ UNCHANGED xOut
    /\ UNCHANGED <<xColumns, xInput>>

IdleExit ==
    /\ xColumns = <<>>
    /\ xInput = <<>>
    /\ xpc = "new"
    /\ xPulls = 0
    /\ xOut = <<>>
    /\ xError = "none"

\* ------------------------------------------------- ProjectionNode

\* a column of config["projection"]: its identity and its node_type
NodeTypes == {"IDENTIFIER", "FUNCTION"}
BoundColumns == [identity : Identities, node_type : NodeTypes]

\* the projections of 1..MaxColumns columns
BoundProjections == UNION {[1..n -> BoundColumns] : n \in 1..MaxColumns}

\* lines 40-42: self.projection
projection_of(projection) == [i \in 1..Len(projection) |-> projection[i].identity]

\* lines 44-46: self.evaluations
evaluations_of(projection) ==
    SelectSeq(projection, LAMBDA column : column.node_type # "IDENTIFIER")

RECURSIVE evaluate_and_append(_, _)
\* evaluate_and_append: each expression is evaluated over the batch and
\* appended under its identity, unless the batch holds that column already
evaluate_and_append(evaluations, morsel) ==
    IF evaluations = <<>> THEN morsel
    ELSE LET id == Head(evaluations).identity
             next == IF Has(column_names(morsel), id) THEN morsel
                     ELSE [columns |-> Append(morsel.columns,
                                              [name |-> id, data |-> id]),
                           num_rows |-> morsel.num_rows]
         IN  evaluate_and_append(Tail(evaluations), next)

\* the mutant: the columns are kept in the batch's order, not the requested one
project_morsel_InputOrder(projection, evaluations, morsel) ==
    LET m == evaluate_and_append(evaluations, morsel)
    IN  [columns |-> SelectSeq(m.columns, LAMBDA c : Has(projection, c.name)),
         num_rows |-> m.num_rows]

\* lines 65-68: what execute makes of one batch
project_morsel(projection, evaluations, morsel) ==
    select(evaluate_and_append(evaluations, morsel), projection)

\* ProjectionNode.__init__
ProjectionConstruct(projection, input) ==
    /\ ppc = "new"
    /\ pProjection' = projection_of(projection)
    /\ pEvaluations' = evaluations_of(projection)
    /\ pInput' = input
    /\ ppc' = "running"
    /\ UNCHANGED <<pIn, pOut, pError>>

\* the consumer pulls the generator: the loop of lines 62-70 pulls the
\* producer, up to the next yield
ProjectionPull ==
    /\ ppc = "running"
    /\ wired
    /\ \E n \in BatchSizes :
       \E b \in (IF Len(pIn) < MaxBatches THEN {Batch(Morsel(pInput, n))} ELSE {})
                    \cup {End} :
            IF producers # 1
            THEN /\ ppc' = "failed"
                 /\ pError' = "SqlError"
                 /\ UNCHANGED <<pIn, pOut>>
            ELSE
            IF b = End
            THEN /\ ppc' = "done"
                 /\ UNCHANGED <<pIn, pOut, pError>>
            ELSE /\ pIn' = Append(pIn, b.rows)
                 /\ IF Selectable(evaluate_and_append(pEvaluations, b.rows), pProjection)
                    THEN /\ pOut' = Append(pOut,
                                project_morsel(pProjection, pEvaluations, b.rows))
                         /\ UNCHANGED <<ppc, pError>>
                    ELSE \* select() of a column the batch does not hold
                         /\ ppc' = "failed"
                         /\ pError' = "KeyError"
                         /\ UNCHANGED pOut
    /\ UNCHANGED <<pProjection, pEvaluations, pInput>>

IdleProjection ==
    /\ pProjection = <<>>
    /\ pEvaluations = <<>>
    /\ pInput = <<>>
    /\ ppc = "new"
    /\ pIn = <<>>
    /\ pOut = <<>>
    /\ pError = "none"

\* ------------------------------------------------- FunctionDatasetNode

\* the keys of FUNCTIONS
FUNCTIONS == {"FAKE", "GENERATE_SERIES", "UNNEST", "VALUES"}

\* the node's config: the function, the keywords the planner hands over with
\* it ("function" is always one of them, line 77), the number of rows and of
\* columns its arguments ask for, and whether UNNEST's argument is NESTED
ConfigKeywords == {"alias", "args", "columns", "values"}
FunctionConfigs ==
    [function : FUNCTIONS,
     keywords : {{"function"} \cup ks : ks \in {ConfigKeywords, ConfigKeywords \ {"alias"}}},
     rows : BatchSizes,
     columns : 1..MaxColumns,
     nested : BOOLEAN]

NoConfig ==
    [function |-> "VALUES", keywords |-> {"function"}, rows |-> 0, columns |-> 1,
     nested |-> FALSE]

\* the signatures of the functions: the parameters that take a keyword, and
\* whether a **kwargs takes the other keywords
Signature(function) ==
    IF function = "FAKE"
    THEN [named |-> {"alias"}, var_keyword |-> FALSE]
    ELSE [named |-> {}, var_keyword |-> TRUE]

\* Python binds the call f(**keywords): every named parameter is given, and a
\* keyword that names no parameter needs a **kwargs
Binds(function, keywords) ==
    /\ Signature(function).named \subseteq keywords
    /\ Signature(function).var_keyword \/ keywords \subseteq Signature(function).named

\* lines 33-58: the rows the function returns, as the number of rows and of
\* keys of a row
FunctionData(config) ==
    CASE config.function = "GENERATE_SERIES" -> [rows |-> config.rows, keys |-> 1]
      [] config.function = "UNNEST" ->
            [rows |-> IF config.nested THEN 1 ELSE config.rows, keys |-> 1]
      [] config.function = "VALUES" -> [rows |-> config.rows, keys |-> config.columns]
      [] config.function = "FAKE" -> [rows |-> config.rows, keys |-> config.columns]

\* pyarrow.Table.from_pylist: the columns are the keys of the first row
from_pylist(data) ==
    [num_rows |-> data.rows, num_columns |-> IF data.rows = 0 THEN 0 ELSE data.keys]

\* the physical planner builds the node and the consumer calls execute()
FunctionDatasetConstruct(config) ==
    /\ fpc = "new"
    /\ fConfig' = config
    /\ fpc' = "created"
    /\ UNCHANGED <<fOut, fRowsRead, fColumnsRead, fError>>

\* the first pull of the generator: lines 95-111
FunctionDatasetPull ==
    /\ fpc = "created"
    /\ IF Binds(fConfig.function, fConfig.keywords)
       THEN LET table == from_pylist(FunctionData(fConfig))
            IN  /\ fRowsRead' = fRowsRead + table.num_rows
                /\ fColumnsRead' = fColumnsRead + table.num_columns
                /\ fOut' = Append(fOut, table)
                /\ fpc' = "yielded"
                /\ UNCHANGED fError
       ELSE \* the TypeError is not UNNEST's and is raised again (line 104)
            /\ fpc' = "failed"
            /\ fError' = "TypeError"
            /\ UNCHANGED <<fOut, fRowsRead, fColumnsRead>>
    /\ UNCHANGED fConfig

\* the mutant: the generator yields its batch again at the next pull
FunctionDatasetEnd_Again ==
    /\ fpc = "yielded"
    /\ fpc' = "done"
    /\ fOut' = fOut \o fOut
    /\ UNCHANGED <<fConfig, fRowsRead, fColumnsRead, fError>>

\* the next pull: the generator's body ends
FunctionDatasetEnd ==
    /\ fpc = "yielded"
    /\ fpc' = "done"
    /\ UNCHANGED <<fConfig, fOut, fRowsRead, fColumnsRead, fError>>

IdleFunctionDataset ==
    /\ fConfig = NoConfig
    /\ fpc = "new"
    /\ fOut = <<>>
    /\ fRowsRead = 0
    /\ fColumnsRead = 0
    /\ fError = "none"

\* ------------------------------------------------- MabelPartitionScheme

\* the hours of the day a range may cover, and the as_at tokens of frames
\* (tokens of one width: the later frame has the greater token, and no token
\* is part of another)
Hours == {0, 1, 2}
Frames == {1, 2}
\* no as_at_ part in the name, and the as_at of line 88 and 98
NoFrame == 0

\* a blob name below the day's prefix <prefix>/year_Y/month_M/day_D:
\*   [by_hour/hour=HH/ | by_region/][as_at_<token>/]<file>
Segments == {None, "by_hour", "by_region"}
Files == {"data.parquet", "frame.complete", "frame.ignore"}
BlobNames ==
    {b \in [by : Segments, hour : Hours, as_at : Frames \cup {NoFrame}, file : Files] :
        /\ b.by # "by_hour" => b.hour = 0
        /\ b.as_at = NoFrame => b.file = "data.parquet"
        /\ b.by = "by_region" => b.as_at = NoFrame}

RECURSIVE SetsUpTo(_, _)
\* the subsets of U of n elements or less
SetsUpTo(U, n) ==
    IF n = 0 THEN {{}}
    ELSE LET smaller == SetsUpTo(U, n - 1)
         IN  smaller \cup {S \cup {x} : S \in smaller, x \in U}

\* the listings of a day
Listings == SetsUpTo(BlobNames, MaxListed)

\* the parts of a blob name after the day's prefix, each as its rank in the
\* order of strings: as_at_<t> < by_hour < by_region < data.parquet
\*   < frame.complete < frame.ignore < hour=HH
PathKey(b) ==
    (CASE b.by = "by_hour" -> <<10, 30 + b.hour>>
       [] b.by = "by_region" -> <<11>>
       [] OTHER -> <<>>)
    \o (IF b.as_at = NoFrame THEN <<>> ELSE <<b.as_at>>)
    \o (CASE b.file = "data.parquet" -> <<20>>
          [] b.file = "frame.complete" -> <<21>>
          [] b.file = "frame.ignore" -> <<22>>)

RECURSIVE LexLess(_, _)
\* the order of strings, on the parts' ranks
LexLess(p, q) ==
    IF p = <<>> THEN q # <<>>
    ELSE IF q = <<>> THEN FALSE
    ELSE IF Head(p) # Head(q) THEN Head(p) < Head(q)
    ELSE LexLess(Tail(p), Tail(q))

\* blob name a sorts before blob name b
NameLess(a, b) == LexLess(PathKey(a), PathKey(b))

RECURSIVE sorted(_)
\* Python's sorted() of a set of blob names
sorted(S) ==
    IF S = {} THEN <<>>
    ELSE LET least == CHOOSE a \in S : \A b \in S \ {a} : NameLess(a, b)
         IN  <<least>> \o sorted(S \ {least})

\* lines 21-33
extract_by(b) == b.by
extract_as_at(b) == b.as_at

\* lines 45-46
is_complete(blobs, as_at) ==
    \E b \in blobs : b.as_at = as_at /\ b.file = "frame.complete"
is_invalid(blobs, as_at) ==
    \E b \in blobs : b.as_at = as_at /\ b.file = "frame.ignore"

\* the mutant: the segments of the listing are not looked at
UnsupportedBy_Never(blob_names) == FALSE

\* line 75: a by_ segment other than by_hour
UnsupportedBy(blob_names) ==
    {extract_by(b) : b \in blob_names} \ {"by_hour", None} # {}

\* "/by_hour/hour=HH/" in blob_name
InHour(b, hour) == b.by = "by_hour" /\ b.hour = hour

\* lines 81-86: the blobs of the hour, if the hour has any
HourFilter(blob_names, hour) ==
    IF \E b \in blob_names : InHour(b, hour)
    THEN {b \in blob_names : InHour(b, hour)}
    ELSE blob_names

RECURSIVE PopFrames(_, _)
\* lines 92-98: as_ats is popped from its greatest token down until a frame
\* is complete and not ignored; the blobs of a frame passed over are dropped
PopFrames(blob_names, as_ats) ==
    IF as_ats = {} THEN [as_at |-> NoFrame, blob_names |-> blob_names]
    ELSE LET as_at == CHOOSE a \in as_ats : \A o \in as_ats : o <= a
         IN  IF is_complete(blob_names, as_at) /\ ~is_invalid(blob_names, as_at)
             THEN [as_at |-> as_at, blob_names |-> blob_names]
             ELSE PopFrames({b \in blob_names : b.as_at # as_at}, as_ats \ {as_at})

\* lines 80-103: the set of the names _inner yields for the hour
inner(listing, hour) ==
    LET blob_names == HourFilter(listing, hour)
        as_ats == {extract_as_at(b) : b \in {x \in blob_names : x.as_at # NoFrame}}
        found == PopFrames(blob_names, as_ats)
    IN  (IF found.as_at # NoFrame
         THEN {b \in found.blob_names : b.as_at = found.as_at}
         ELSE {})
        \cup found.blob_names

\* the mutant: the names are yielded again whether seen or not
NewBlobs_NoSeen(blobs, seen) == blobs

\* line 115: set(blobs).difference(seen)
NewBlobs(blobs, seen) == blobs \ seen

\* a sequence of blob names, each with the hour that yielded it
Tagged(names, hour) == [i \in 1..Len(names) |-> [hour |-> hour, blob |-> names[i]]]

\* get_blobs_in_partition is called: a generator, none of its body has run
MabelCall(listing, start, end) ==
    /\ mpc = "new"
    /\ start <= end
    /\ mListing' = listing
    /\ mStart' = start
    /\ mEnd' = end
    /\ mHour' = start
    /\ mpc' = "running"
    /\ UNCHANGED <<mSeen, mOut, mError>>

\* one turn of the loop of lines 113-117: _inner runs for the hour and the
\* names not seen before are yielded in sorted order
MabelHour ==
    /\ mpc = "running"
    /\ mHour <= mEnd
    /\ IF UnsupportedBy(mListing)
       THEN /\ mpc' = "failed"
            /\ mError' = "UnsupportedSegementationError"
            /\ UNCHANGED <<mHour, mSeen, mOut>>
       ELSE LET fresh == NewBlobs(inner(mListing, mHour), mSeen)
            IN  /\ mOut' = mOut \o Tagged(sorted(fresh), mHour)
                /\ mSeen' = mSeen \cup fresh
                /\ mHour' = mHour + 1
                /\ UNCHANGED <<mpc, mError>>
    /\ UNCHANGED <<mListing, mStart, mEnd>>

\* hourly_timestamps is exhausted
MabelEnd ==
    /\ mpc = "running"
    /\ mHour > mEnd
    /\ mpc' = "done"
    /\ UNCHANGED <<mListing, mStart, mEnd, mHour, mSeen, mOut, mError>>

IdleMabel ==
    /\ mListing = {}
    /\ mStart = 0
    /\ mEnd = 0
    /\ mpc = "new"
    /\ mHour = 0
    /\ mSeen = {}
    /\ mOut = <<>>
    /\ mError = "none"

\* ------------------------------------------------- AggregateAndGroupNode

\* an expression node of the groups or of the projection: its node_type, its
\* type, its value (of a literal) and the identity of its schema column
IdentifierNode(identity, type) ==
    [node_type |-> "IDENTIFIER", type |-> type, value |-> 0, identity |-> identity]
LiteralNode(type, value) ==
    [node_type |-> "LITERAL", type |-> type, value |-> value, identity |-> "literal"]

\* the columns of the projection a GROUP BY may point at
GroupProjections ==
    UNION {[1..n -> {IdentifierNode(i, "VARCHAR") : i \in Identities}] : n \in 1..MaxColumns}

\* the entries of a GROUP BY: integer literals from 0 to one past the longest
\* projection, a literal of another type, and identifiers of either type
GroupNodes ==
    {LiteralNode("INTEGER", v) : v \in 0..(MaxColumns + 1)}
        \cup {LiteralNode("VARCHAR", 1)}
        \cup {IdentifierNode(i, t) : i \in Identities, t \in {"INTEGER", "VARCHAR"}}

GroupLists == UNION {[1..n -> GroupNodes] : n \in 1..MaxGroups}

\* Python's list[i], i counted from 0: a negative i counts from the end
InRange(list, i) == -Len(list) <= i /\ i < Len(list)
Item(list, i) == IF i >= 0 THEN list[i + 1] ELSE list[Len(list) + i + 1]

\* line 53: the entry is an offset into the projection
IsOffset(group) == group.node_type = "LITERAL" /\ group.type = "INTEGER"

\* the mutant: the offset is counted from 0
OffsetIndex_FromZero(group) == group.value

\* line 54: the index of the entry's column in the projection
OffsetIndex(group) == group.value - 1

\* lines 51-56: the groups with the offsets replaced by their columns
ResolveGroups(groups, projection) ==
    [i \in 1..Len(groups) |->
        IF ~IsOffset(groups[i]) THEN groups[i]
        ELSE Item(projection, OffsetIndex(groups[i]))]

\* AggregateAndGroupNode.__init__, lines 44-71
GroupConstruct(groups, projection) ==
    /\ gpc = "new"
    /\ gConfig' = [groups |-> groups, projection |-> projection]
    /\ IF \A i \in 1..Len(groups) :
            IsOffset(groups[i]) => InRange(projection, OffsetIndex(groups[i]))
       THEN /\ gGroups' = ResolveGroups(groups, projection)
            /\ gGroupBy' = {ResolveGroups(groups, projection)[i].identity :
                                i \in 1..Len(groups)}
            /\ gpc' = "built"
            /\ UNCHANGED gError
       ELSE /\ gpc' = "failed"
            /\ gError' = "IndexError"
            /\ UNCHANGED <<gGroups, gGroupBy>>
    /\ UNCHANGED <<gBatches, gOut>>

\* the mutant: execute does not look at the number of producers
GroupPull_NoProducerCheck ==
    /\ gpc = "built"
    /\ wired
    /\ \/ \E n \in BatchSizes :
            /\ Len(gBatches) < MaxBatches
            /\ gBatches' = Append(gBatches, n)
            /\ UNCHANGED <<gpc, gError>>
       \/ /\ IF gBatches = <<>>
             THEN gpc' = "failed" /\ gError' = "ArrowInvalid"
             ELSE gpc' = "emit" /\ gError' = gError
          /\ UNCHANGED gBatches
    /\ UNCHANGED <<gConfig, gGroups, gGroupBy, gOut>>

\* execute, lines 87-97: the producer is drained into one table
GroupPull ==
    /\ gpc = "built"
    /\ wired
    /\ \/ /\ producers # 1
          /\ gpc' = "failed"
          /\ gError' = "SqlError"
          /\ UNCHANGED gBatches
       \/ \E n \in BatchSizes :
            /\ producers = 1
            /\ Len(gBatches) < MaxBatches
            /\ gBatches' = Append(gBatches, n)
            /\ UNCHANGED <<gpc, gError>>
       \/ /\ producers = 1
          /\ IF gBatches = <<>>
             THEN \* concat_tables refuses an empty list of tables
                  gpc' = "failed" /\ gError' = "ArrowInvalid"
             ELSE gpc' = "emit" /\ gError' = gError
          /\ UNCHANGED gBatches
    /\ UNCHANGED <<gConfig, gGroups, gGroupBy, gOut>>

\* the number of groups a table of so many rows falls into
GroupCounts(rows) == IF rows = 0 THEN {0} ELSE 1..rows

\* the mutant: a table of groups is yielded for every batch pulled
GroupEmit_PerBatch ==
    /\ gpc = "emit"
    /\ gOut' = gOut \o [i \in 1..Len(gBatches) |->
                            [group_by |-> gGroupBy, num_rows |-> gBatches[i]]]
    /\ gpc' = "done"
    /\ UNCHANGED <<gConfig, gGroups, gGroupBy, gError, gBatches>>

\* execute, lines 112-124: one table of the groups is yielded
GroupEmit ==
    /\ gpc = "emit"
    /\ \E n \in GroupCounts(SumSeq(gBatches)) :
            gOut' = Append(gOut, [group_by |-> gGroupBy, num_rows |-> n])
    /\ gpc' = "done"
    /\ UNCHANGED <<gConfig, gGroups, gGroupBy, gError, gBatches>>

IdleGroup ==
    /\ gConfig = [groups |-> <<>>, projection |-> <<>>]
    /\ gpc = "new"
    /\ gGroups = <<>>
    /\ gGroupBy = {}
    /\ gError = "none"
    /\ gBatches = <<>>
    /\ gOut = <<>>

\* ------------------------------------------------- the cancellation token

\* the client trips the token of the running query
Cancel ==
    /\ ~cancelled
    /\ cancelled' = TRUE

IdleToken == cancelled = FALSE

\* ------------------------------------------------- DiskConnector

\* the extensions of the files on disk: one with a decoder, one without
Extensions == {".parquet", ".txt"}
VALID_EXTENSIONS == {".parquet"}

\* a file on disk: its extension, and whether open(blob_name, "br") succeeds
DiskFiles == [ext : Extensions, readable : BOOLEAN]

\* a dataset path: a directory with up to MaxFiles files, or no directory
Datasets ==
    {[isdir |-> TRUE, files |-> f] : f \in SeqsUpTo(DiskFiles, MaxFiles)}
        \cup {[isdir |-> FALSE, files |-> <<>>]}

\* get_list_of_blob_names: os.walk keeps the files with a valid extension
get_list_of_blob_names(dataset) ==
    SelectSeq(dataset.files, LAMBDA f : f.ext \in VALID_EXTENSIONS)

\* get_decoder: a decoder for a known extension, UnsupportedFileTypeError else
get_decoder(blob) ==
    IF blob.ext \in VALID_EXTENSIONS THEN "decoder" ELSE "UnsupportedFileTypeError"

\* read_blob, line 52: open raises OSError for a file it cannot open
read_blob_open(blob) == IF blob.readable THEN "bytes" ELSE "OSError"

\* read_dataset's loop from position pos up to its next yield, to the error
\* that leaves it, or to its end: UnsupportedFileTypeError is passed over
RECURSIVE read_dataset(_, _)
read_dataset(blob_names, pos) ==
    IF pos >= Len(blob_names)
    THEN [kind |-> "end", pos |-> pos, error |-> "none"]
    ELSE LET blob == blob_names[pos + 1]
         IN  IF get_decoder(blob) = "UnsupportedFileTypeError"
             THEN read_dataset(blob_names, pos + 1)
             ELSE IF read_blob_open(blob) = "OSError"
             THEN [kind |-> "raise", pos |-> pos + 1, error |-> "OSError"]
             ELSE [kind |-> "yield", pos |-> pos + 1, error |-> "none"]

ConnectorConstruct(dataset, metastore) ==
    /\ dpc = "new"
    /\ dDataset' = dataset
    /\ dMetastore' = metastore
    /\ dpc' = "ready"
    /\ UNCHANGED <<dPos, dYielded, dSchema, dError>>

\* one pull of the stream read_dataset() returns
ReadDatasetPull ==
    /\ dpc \in {"ready", "reading"}
    /\ LET r == read_dataset(get_list_of_blob_names(dDataset), dPos)
       IN  /\ dPos' = r.pos
           /\ dError' = r.error
           /\ dpc' = CASE r.kind = "yield" -> "reading"
                      [] r.kind = "raise" -> "failed"
                      [] OTHER -> "done"
           /\ dYielded' = IF r.kind = "yield"
                          THEN Append(dYielded, get_list_of_blob_names(dDataset)[r.pos])
                          ELSE dYielded
    /\ UNCHANGED <<dDataset, dMetastore, dSchema>>

\* get_dataset_schema: the metastore's schema, or that of the first record
GetDatasetSchema ==
    /\ dpc = "ready"
    /\ LET r == read_dataset(get_list_of_blob_names(dDataset), 0)
       IN  IF dMetastore
           THEN dSchema' = "metastore" /\ dError' = "none" /\ dpc' = "done"
           ELSE IF r.kind = "raise"
           THEN dSchema' = dSchema /\ dError' = r.error /\ dpc' = "failed"
           ELSE IF r.kind = "end"
           THEN /\ dSchema' = dSchema
                /\ dError' = IF dDataset.isdir THEN "EmptyDatasetError"
                                               ELSE "DatasetNotFoundError"
                /\ dpc' = "failed"
           ELSE dSchema' = "record" /\ dError' = "none" /\ dpc' = "done"
    /\ UNCHANGED <<dDataset, dMetastore, dPos, dYielded>>

IdleConnector ==
    /\ dDataset = [isdir |-> FALSE, files |-> <<>>]
    /\ dMetastore = FALSE
    /\ dpc = "new"
    /\ dPos = 0
    /\ dYielded = <<>>
    /\ dSchema = "none"
    /\ dError = "none"

\* ------------------------------------------------- the specifications

NextCursor ==
    \/ (\E p \in Presentable : Connect(p)) /\ UNCHANGED notCursor
    \/ /\ pc = "idle"
       /\ \E a \in {"execute", "execute_to_arrow"}, op \in Operations : Execute(a, op)
       /\ UNCHANGED notCursor
    \/ SqlRewrite /\ UNCHANGED notCursor
    \/ Parse /\ UNCHANGED notCursor
    \/ AstRewrite /\ UNCHANGED notCursor
    \/ LogicalPlan /\ UNCHANGED notCursor
    \/ PermCheck /\ UNCHANGED notCursor
    \/ Bind /\ UNCHANGED notCursor
    \/ PhysicalPlan /\ UNCHANGED notCursor
    \/ YieldPlan /\ UNCHANGED notCursor
    \/ PlanExecute /\ UNCHANGED notCursor
    \/ Finish /\ UNCHANGED notCursor

\* the operators not yet built
IdleOperators ==
    /\ IdleAggregate
    /\ IdleExit
    /\ IdleProjection
    /\ IdleFunctionDataset
    /\ IdleMabel
    /\ IdleGroup
    /\ IdleToken
    /\ IdleWiring
    /\ IdleConnector

InitAll == InitCursor /\ IdleJoin /\ IdleCache /\ IdleOperators

SpecCursor == InitAll /\ [][NextCursor]_vars

NextJoin ==
    \/ /\ jpc = "new"
       /\ \E c \in JoinConfigs : JoinConstruct("any", c)
       /\ UNCHANGED notJoin
    \/ (\E c \in {PlanetsUsingConfig, PlanetsOnConfig} :
            JoinConstruct("planets", c)) /\ UNCHANGED notJoin
    \/ /\ jpc = "right"
       /\ \E n \in ProducerCounts : set_producers(n)
       /\ UNCHANGED notWiring
    \/ JoinPullRight /\ UNCHANGED notJoin
    \/ JoinResolveColumns /\ UNCHANGED notJoin
    \/ JoinPullLeft /\ UNCHANGED notJoin

SpecJoin == InitAll /\ [][NextJoin]_vars

\* the cache is new and empty; the dataset has 1..MaxBlobs blobs
InitCache ==
    /\ cN \in 1..MaxBlobs
    /\ cStore = {}
    /\ cpc = "idle"
    /\ cQuery = [hasCache |-> FALSE, noCache |-> FALSE, sub |-> FALSE]
    /\ cPos = 0
    /\ cHits = 0
    /\ cMisses = 0
    /\ cPrev = <<>>
    /\ InitCursor
    /\ IdleJoin
    /\ IdleOperators

NextCache ==
    \/ (\E q \in Queries : StartQuery(q)) /\ UNCHANGED notCache
    \/ ReadDataset /\ UNCHANGED notCache
    \/ EndQuery /\ UNCHANGED notCache

SpecCache == InitCache /\ [][NextCache]_vars

NextAggregate ==
    \/ /\ apc = "new"
       /\ \E a \in AggregateLists : AggregateConstruct(a)
       /\ UNCHANGED notAggregate
    \/ /\ apc = "pull"
       /\ \E n \in ProducerCounts : set_producers(n)
       /\ UNCHANGED notWiring
    \/ AggregatePull /\ UNCHANGED notAggregate
    \/ AggregateEmit /\ UNCHANGED notAggregate

SpecAggregate == InitAll /\ [][NextAggregate]_vars

NextExit ==
    \/ /\ xpc = "new"
       /\ \E c \in Projections, i \in InputSchemas : ExitConstruct(c, i)
       /\ UNCHANGED notExit
    \/ /\ xpc = "created"
       /\ \E n \in ProducerCounts : set_producers(n)
       /\ UNCHANGED notWiring
    \/ ExitPull /\ UNCHANGED notExit
    \/ Cancel /\ UNCHANGED notToken

SpecExit == InitAll /\ [][NextExit]_vars

NextProjection ==
    \/ /\ ppc = "new"
       /\ \E c \in BoundProjections, i \in InputSchemas : ProjectionConstruct(c, i)
       /\ UNCHANGED notProjection
    \/ /\ ppc = "running"
       /\ \E n \in ProducerCounts : set_producers(n)
       /\ UNCHANGED notWiring
    \/ ProjectionPull /\ UNCHANGED notProjection

SpecProjection == InitAll /\ [][NextProjection]_vars

NextFunctionDataset ==
    \/ (\E c \in FunctionConfigs : FunctionDatasetConstruct(c))
            /\ UNCHANGED notFunctionDataset
    \/ FunctionDatasetPull /\ UNCHANGED notFunctionDataset
    \/ FunctionDatasetEnd /\ UNCHANGED notFunctionDataset

SpecFunctionDataset == InitAll /\ [][NextFunctionDataset]_vars

NextMabel ==
    \/ /\ mpc = "new"
       /\ \E l \in Listings, start \in Hours, end \in Hours : MabelCall(l, start, end)
       /\ UNCHANGED notMabel
    \/ MabelHour /\ UNCHANGED notMabel
    \/ MabelEnd /\ UNCHANGED notMabel

SpecMabel == InitAll /\ [][NextMabel]_vars

NextGroup ==
    /\ gpc = "new"
    /\ \E g \in GroupLists, p \in GroupProjections : GroupConstruct(g, p)
    /\ UNCHANGED notGroup

SpecGroup == InitAll /\ [][NextGroup]_vars

\* no operator has been constructed
AllNew ==
    /\ jpc = "new"
    /\ apc = "new"
    /\ xpc = "new"
    /\ ppc = "new"
    /\ fpc = "new"
    /\ gpc = "new"

\* the schemas of a producer that supplies every identity
FullSchemas == {q \in InputSchemas : Len(q) = Cardinality(Identities)}

\* one operator of any kind is constructed, wired to its producers and pulled
NextOperators ==
    \/ /\ AllNew
       /\ \E c \in {PlanetsUsingConfig, PlanetsOnConfig} : JoinConstruct("any", c)
       /\ UNCHANGED notJoin
    \/ /\ AllNew
       /\ \E a \in AggregateLists : AggregateConstruct(a)
       /\ UNCHANGED notAggregate
    \/ /\ AllNew
       /\ \E c \in Projections, i \in FullSchemas : ExitConstruct(c, i)
       /\ UNCHANGED notExit
    \/ /\ AllNew
       /\ \E c \in BoundProjections, i \in FullSchemas : ProjectionConstruct(c, i)
       /\ UNCHANGED notProjection
    \/ /\ AllNew
       /\ \E c \in FunctionConfigs : FunctionDatasetConstruct(c)
       /\ UNCHANGED notFunctionDataset
    \/ /\ AllNew
       /\ \E g \in GroupNodes, p \in GroupProjections : GroupConstruct(<<g>>, p)
       /\ UNCHANGED notGroup
    \/ /\ ~AllNew
       /\ \E n \in ProducerCounts : set_producers(n)
       /\ UNCHANGED notWiring
    \/ JoinPullRight /\ UNCHANGED notJoin
    \/ JoinResolveColumns /\ UNCHANGED notJoin
    \/ JoinPullLeft /\ UNCHANGED notJoin
    \/ AggregatePull /\ UNCHANGED notAggregate
    \/ AggregateEmit /\ UNCHANGED notAggregate
    \/ ExitPull /\ UNCHANGED notExit
    \/ ProjectionPull /\ UNCHANGED notProjection
    \/ FunctionDatasetPull /\ UNCHANGED notFunctionDataset
    \/ FunctionDatasetEnd /\ UNCHANGED notFunctionDataset
    \/ GroupPull /\ UNCHANGED notGroup
    \/ GroupEmit /\ UNCHANGED notGroup

SpecOperators == InitAll /\ [][NextOperators]_vars

\* the consumer keeps pulling the stream for as long as it can be pulled
SpecOperatorsPulled == SpecOperators /\ WF_vars(NextOperators)

NextConnector ==
    \/ /\ dpc = "new"
       /\ \E d \in Datasets, m \in BOOLEAN : ConnectorConstruct(d, m)
       /\ UNCHANGED notConnector
    \/ ReadDatasetPull /\ UNCHANGED notConnector
    \/ GetDatasetSchema /\ UNCHANGED notConnector

SpecConnector == InitAll /\ [][NextConnector]_vars

\* ------------------------------------------------- claims on SpecCursor

\* a step that is a call of execute with a non-empty statement
NonEmptyCall == ncalls' = ncalls + 1 /\ operation'.text = "sql"

\* a step that is a call of execute with None or the empty string
EmptyCall == ncalls' = ncalls + 1 /\ operation'.text \in {None, ""}

\* C1: once a call of execute with a non-empty statement was accepted on the
\* cursor, every later call with a non-empty statement raises
\* CursorInvalidStateError and starts no planning.
C1_SingleShot ==
    [][(NonEmptyCall /\ accepted >= 1)
          => (error' = "CursorInvalidStateError" /\ pc' = "idle"
              /\ accepted' = accepted /\ history' = history)]_vars

\* C2: a statement whose kind the connection's permissions do not hold is
\* refused with PermissionsError by the check, which ends the call, and none of
\* bind, physical planning, yield and execution ever ran for it.
C2_PermissionBeforeBind ==
    \A i \in 1..Len(log) :
        LET stage == log[i][1]
            s == log[i][2]
        IN  /\ stage \in {"bind", "physical", "yield", "execute"}
                => operation.stmts[s] \in permissions
            /\ (stage = "perm" /\ operation.stmts[s] \notin permissions)
                => (i = Len(log) /\ pc = "idle" /\ error = "PermissionsError")

\* the second statement was refused after the first one's plan was yielded
C2_Witness ==
    /\ pc = "idle"
    /\ error = "PermissionsError"
    /\ k = 2
    /\ \E i \in 1..Len(log) : log[i] = <<"yield", 1>>
    /\ log[Len(log)] = <<"perm", 2>>

\* C3: the construction succeeds exactly when the presented permissions (None:
\* the vocabulary) are a non-empty subset of the vocabulary, raises
\* PermissionsError otherwise, and keeps a subset of the vocabulary.
C3_ConnectionPermissions ==
    connState # "none" =>
        LET eff == IF presented.isNone THEN PERMISSIONS ELSE presented.words
        IN  /\ (connState = "open") <=> (eff # {} /\ eff \subseteq PERMISSIONS)
            /\ connState = "failed" => error = "PermissionsError"
            /\ connState = "open"
                => (permissions = eff /\ permissions \subseteq PERMISSIONS)

\* a proper subset of the vocabulary was presented and accepted
C3_Witness ==
    /\ connState = "open"
    /\ ~presented.isNone
    /\ permissions = {"Query"}

\* C4: a call with an empty or missing statement raises MissingSqlStatement
\* and changes nothing of the connection and the cursor, no stage runs; and a
\* non-empty call on a cursor that only saw such calls is accepted.
C4_EmptyStatement ==
    /\ [][EmptyCall
            => (/\ error' = "MissingSqlStatement"
                /\ pc' = "idle"
                /\ log' = <<>>
                /\ history' = history
                /\ cursor' = cursor
                /\ accepted' = accepted
                /\ permissions' = permissions
                /\ connState' = connState)]_vars
    /\ [][(NonEmptyCall /\ accepted = 0)
            => (accepted' = 1 /\ pc' = "sql_rewrite"
                /\ Len(history') = Len(history) + 1)]_vars

\* the first call was empty and refused, the second one is accepted
C4_Witness ==
    /\ ncalls = 2
    /\ accepted = 1
    /\ pc = "sql_rewrite"
    /\ Len(history) = 1

\* C5: a parser failure leaves the call as SqlError; a call that leaves a
\* stage of the planner by an exception ends with that error; and the
\* cursor's rows and schema change only when a call returns results.
C5_NoPartialResults ==
    /\ [][(pc = "parse" /\ pc' = "idle") => error' = "SqlError"]_vars
    /\ [][(pc \notin {"idle", "finish"} /\ pc' = "idle")
            => (error' \notin {"none", "running"}
                /\ cursor'._rows = cursor._rows
                /\ cursor'._schema = cursor._schema)]_vars
    /\ [][(cursor'._rows # cursor._rows \/ cursor'._schema # cursor._schema)
            => (pc = "finish" /\ results # 0 /\ error' = "none")]_vars

\* the binder raised for the second statement after the first one's plan ran
\* and returned results
C5_Witness ==
    /\ pc = "idle"
    /\ error = "ColumnNotFoundError"
    /\ k = 2
    /\ results = 1
    /\ cursor._plan = 1
    /\ cursor._rows = <<>>
    /\ cursor._schema = <<>>

\* the place of a stage in the compilation of a statement
StageRank(stage) ==
    CASE stage = "sql_rewrite" -> 1
      [] stage = "parse" -> 2
      [] stage = "ast_rewrite" -> 3
      [] stage = "logical" -> 4
      [] stage = "perm" -> 5
      [] stage = "bind" -> 6
      [] stage = "physical" -> 7
      [] stage = "yield" -> 8
      [] OTHER -> 9

\* the log holds this entry before place j
Before(j, entry) == \E i \in 1..(j - 1) : log[i] = entry

\* C27: the stages of the operation (SQL rewrite, parse, AST rewrite) run in
\* this order before any statement is planned; the stages of one statement run
\* in the order logical planning, permission check, bind, physical planning;
\* the permission check, the binding and the physical planning of statement
\* n+1 run only after the plan of statement n was yielded and the cursor
\* called execute() on it; and the results the cursor keeps or returns are
\* those of the last statement's plan.
C27_StageOrder ==
    /\ [](/\ \A i, j \in 1..Len(log) :
                (i < j /\ (log[i][2] = log[j][2] \/ log[i][2] = 0))
                    => StageRank(log[i][1]) < StageRank(log[j][1])
          /\ \A j \in 1..Len(log) :
                (log[j][2] > 0 /\ log[j][1] # "logical") =>
                    /\ Before(j, <<"sql_rewrite", 0>>)
                    /\ Before(j, <<"parse", 0>>)
                    /\ Before(j, <<"ast_rewrite", 0>>)
                    /\ Before(j, <<"logical", log[j][2]>>)
          /\ \A j \in 1..Len(log) :
                (log[j][1] \in {"perm", "bind", "physical"} /\ log[j][2] > 1) =>
                    /\ Before(j, <<"yield", log[j][2] - 1>>)
                    /\ Before(j, <<"execute", log[j][2] - 1>>)
          /\ pc = "finish" =>
                (k = Len(operation.stmts) /\ results \in {0, Len(operation.stmts)}))
    /\ [][cursor'._rows # cursor._rows =>
                /\ pc = "finish"
                /\ cursor'._rows = from_arrow(Len(operation.stmts))[1]]_vars

\* an operation of two statements was compiled and run statement by statement
\* and the cursor holds the rows of the second
C27_Witness ==
    /\ pc = "idle"
    /\ error = "none"
    /\ Len(operation.stmts) = 2
    /\ cursor._rows = from_arrow(2)[1]
    /\ \E j \in 1..Len(log) : log[j] = <<"perm", 2>> /\ Before(j, <<"execute", 1>>)

\* what the two guards of _inner_execute raise, before the history is touched
GuardErrors == {"MissingSqlStatement", "CursorInvalidStateError"}

\* C28: every execute of a non-empty statement that passes the cursor's guards
\* appends exactly one entry to the history, and once the call is over the
\* entry's flag is True exactly when the execution returned results: it is
\* not True when planning or execution raised, nor when no results came back.
C28_HistoryFlag ==
    /\ Len(history) = accepted
    /\ (pc = "idle" /\ accepted > 0 /\ error \notin GuardErrors) =>
            (history[Len(history)][2] = TRUE <=> (error = "none" /\ results # 0))

\* ------------------------------------------------- claims on SpecJoin

\* C6: a JoinNode given USING is constructed when its type is INNER or LEFT
\* OUTER and is refused with SqlError for every other type; one given neither
\* ON nor USING is refused with SqlError.
C6_UsingInnerOrLeft ==
    jpc # "new" =>
        /\ jConfig.using # NoUsing
            => ((jpc # "rejected") <=> (lower(jConfig.type) \in {"inner", "left outer"}))
        /\ (jConfig.using = NoUsing /\ jConfig.on = NoCondition)
            => (jpc = "rejected" /\ jError = "SqlError")

\* C7: the join of SELECT * FROM $planets INNER JOIN $planets USING (name, id)
\* runs to its end without an error and yields 9 rows.
C7_PlanetsUsingNineRows ==
    (jScenario = "planets" /\ jpc \in {"rejected", "failed", "done"})
        => (jpc = "done" /\ jError = "none" /\ TotalRows(jOut) = NumPlanets)

\* C24: Join pulls its right producer to exhaustion before it pulls the first
\* left batch and never pulls it again; every left batch pulled is answered
\* by exactly one joined batch before the next left batch is pulled; and the
\* n-th batch emitted is the join of the n-th left batch with the right table.
C24_RightThenLeft ==
    /\ [](/\ jpc \in {"new", "rejected", "right", "columns"} =>
                (jLeft = <<>> /\ jOut = <<>>)
          /\ jpc \in {"left", "done"} => Len(jOut) = Len(jLeft)
          /\ Len(jOut) <= Len(jLeft)
          /\ \A n \in 1..Len(jOut) :
                jOut[n] = JoinRows(jConfig.type, jLeft[n], jRightTable))
    /\ [][/\ jLeft' # jLeft =>
                /\ Len(jOut) = Len(jLeft)
                /\ Len(jLeft') = Len(jLeft) + 1
                /\ jpc' # "failed" => Len(jOut') = Len(jLeft')
          /\ jLeft # <<>> =>
                (jRightPulls' = jRightPulls /\ jRightTable' = jRightTable)
          /\ jRightPulls' # jRightPulls => jLeft = <<>>]_vars

\* two different left batches were joined, in their order, with a right table
\* of two batches
C24_Witness ==
    /\ jpc = "done"
    /\ jRightPulls = 2
    /\ Len(jLeft) = 2
    /\ Len(jOut) = 2
    /\ jOut[1] # jOut[2]

\* the rows of a sequence of batches, concatenated
RECURSIVE Concatenated(_)
Concatenated(batches) ==
    IF batches = <<>> THEN <<>>
    ELSE Head(batches) \o Concatenated(Tail(batches))

\* how often a row occurs in a table
Occurrences(table, row) == Len(SelectSeq(table, LAMBDA r : r = row))

\* C26: once a Join's stream has ended, the rows it emitted are as many as
\* the join of the whole left input with the right table has, however the
\* left input was split into batches; and for RIGHT OUTER and FULL OUTER
\* every right row whose key no left row has occurs exactly once, padded with
\* nulls, in the concatenation of the emitted batches.
C26_OuterJoinRows ==
    (jpc = "done" /\ jConfig.type \in ArrowJoinTypes) =>
        /\ Len(Concatenated(jOut))
                = Len(JoinRows(jConfig.type, Concatenated(jLeft), jRightTable))
        /\ jConfig.type \in {"right outer", "full outer"} =>
                \A i \in 1..Len(jRightTable) :
                    ~Has(Concatenated(jLeft), jRightTable[i]) =>
                        Occurrences(Concatenated(jOut), <<Null, jRightTable[i]>>)
                            = Occurrences(jRightTable, jRightTable[i])

\* ------------------------------------------------- claims on SpecCache

\* the ended query i went through the cache
Cached(i) == cPrev[i].hasCache /\ ~cPrev[i].noCache

\* the ended query i is the first one that went through the cache
FirstCached(i) == Cached(i) /\ \A j \in 1..(i - 1) : ~Cached(j)

C10_CountStar ==
    (is_count_star(aAggregates) /\ ~Miswired(1)) =>
        /\ apc # "failed"
        /\ apc \in {"pull", "emit"} => aOut = <<>>
        /\ apc = "done" =>
            /\ Len(aOut) = 1
            /\ Len(aOut[1]) = 1
            /\ aOut[1][1].names = <<Identity(1)>>
            /\ aOut[1][1].values = <<SumSeq(aBatches)>>
            /\ aBatches = <<>> => aOut[1][1].values = <<0>>

\* COUNT(*) over two batches of one row each ended with the value 2
C10_Witness ==
    /\ is_count_star(aAggregates)
    /\ apc = "done"
    /\ aBatches = <<1, 1>>
    /\ aOut[1][1].values = <<2>>

\* COUNT(*) over a producer that yields no batch ended with the value 0
C10_WitnessEmpty ==
    /\ is_count_star(aAggregates)
    /\ apc = "done"
    /\ aBatches = <<>>
    /\ aOut[1][1].values = <<0>>

\* C29: an ungrouped Aggregate of two or more aggregates, wired to its one
\* producer and given at least one batch, does not fail on the selection of
\* the column_map identities, and the batch it emits holds one column for
\* every aggregate, named by the aggregate's schema identity.
C29_EveryAggregateSelected ==
    (Len(aAggregates) >= 2 /\ ~Miswired(1) /\ aBatches # <<>>) =>
        /\ aError # "KeyError"
        /\ apc = "done" =>
            /\ Len(aOut) = 1
            /\ aOut[1][1].names = [i \in 1..Len(aAggregates) |-> Identity(i)]

\* ------------------------------------------------- claims on SpecExit

\* the names of the batch's columns are pairwise distinct
DistinctNames(morsel) == Distinct(column_names(morsel))

\* the batch Exit is to emit for its projection: the projected identities in
\* projection order, under their query_column names
Projected(columns, morsel) ==
    /\ Len(morsel.columns) = Len(columns)
    /\ \A i \in 1..Len(columns) :
        /\ morsel.columns[i].data = columns[i].identity
        /\ morsel.columns[i].name = columns[i].query_column

\* C11: when two columns of Exit's projection carry the same identity, the
\* first pull of Exit raises SqlError with no batch pulled from the producer
\* and none emitted; otherwise (Exit wired to its one producer) it raises no
\* SqlError and every emitted batch holds exactly the projected
\* identities, in projection order, renamed to their query_column names.
C11_ExitUniqueIdentities ==
    /\ (xpc \notin {"new", "created"} /\ ~Distinct(final_columns(xColumns)))
        => (xpc = "failed" /\ xError = "SqlError" /\ xPulls = 0 /\ xOut = <<>>)
    /\ (Distinct(final_columns(xColumns)) /\ ~Miswired(1))
        => /\ xError # "SqlError"
           /\ \A n \in 1..Len(xOut) : Projected(xColumns, xOut[n])

\* a projection of two columns in an order other than the input's was emitted
\* twice under the query names
C11_Witness ==
    /\ xColumns = <<[identity |-> "i2", query_column |-> "a"],
                    [identity |-> "i1", query_column |-> "b"]>>
    /\ xInput = <<"i1", "i2", "i3">>
    /\ Len(xOut) = 2
    /\ column_names(xOut[2]) = <<"a", "b">>

\* a projection with one identity twice was refused on the first pull
C11_WitnessRefused ==
    /\ ~Distinct(final_columns(xColumns))
    /\ xpc = "failed"
    /\ xError = "SqlError"

\* C12: no two columns of a batch Exit emits share a query_column name.
C12_ExitUniqueNames ==
    \A n \in 1..Len(xOut) : DistinctNames(xOut[n])

\* C20: once the cancellation token is tripped, Exit, the root, emits no
\* further batch, and the step it takes next ends its stream with the error
\* Cancelled.
C20_Cancellable ==
    [][(cancelled /\ xpc \in {"created", "running"}) =>
            /\ xOut' = xOut
            /\ xpc' # xpc => (xpc' = "failed" /\ xError' = "Cancelled")]_vars

\* ------------------------------------------------- claims on SpecProjection

\* every requested identity is a column of the input or one of the computed
\* columns: the plan is bound
BoundToInput ==
    \A i \in 1..Len(pProjection) :
        \/ Has(pInput, pProjection[i])
        \/ \E j \in 1..Len(pEvaluations) : pEvaluations[j].identity = pProjection[i]

C13_WitnessIdentity ==
    /\ pProjection = pInput
    /\ Len(pInput) = 2
    /\ ppc = "done"
    /\ Len(pOut) = 2
    /\ pOut = pIn

\* ------------------------------------------------- claims on SpecFunctionDataset

\* C14: for each of VALUES, UNNEST, GENERATE_SERIES and FAKE, execute yields
\* one batch and then ends, and has added the batch's number of rows to
\* rows_read and its number of columns to columns_read.
C14_OneBatch ==
    /\ fpc # "failed"
    /\ fpc \in {"yielded", "done"} =>
        /\ Len(fOut) = 1
        /\ fRowsRead = fOut[1].num_rows
        /\ fColumnsRead = fOut[1].num_columns

\* ------------------------------------------------- claims on SpecMabel

\* the first hour of the range has been processed
FirstHourDone == mpc \in {"done", "failed"} \/ (mpc = "running" /\ mHour > mStart)

ValidFrames(blobs) ==
    {t \in Frames :
        /\ \E b \in blobs : b.as_at = t /\ b.file = "frame.complete"
        /\ ~\E b \in blobs : b.as_at = t /\ b.file = "frame.ignore"}

\* C16: every blob yielded for an hour that lies under an as_at frame lies
\* under the latest frame of that hour's blobs that is complete and not
\* ignored.
C16_LatestFrameOnly ==
    \A i \in 1..Len(mOut) :
        LET valid == ValidFrames(HourFilter(mListing, mOut[i].hour))
        IN  mOut[i].blob.as_at # NoFrame =>
                /\ valid # {}
                /\ \A t \in valid : t <= mOut[i].blob.as_at
                /\ mOut[i].blob.as_at \in valid

\* C17: no blob name is yielded more than once.
C17_NoDuplicates ==
    \A i, j \in 1..Len(mOut) : i # j => mOut[i].blob # mOut[j].blob

\* a day without hour folders was listed for each of the three hours of the
\* range and its blobs were yielded once
C17_Witness ==
    /\ mpc = "done"
    /\ mStart = 0
    /\ mEnd = 2
    /\ Cardinality(mListing) = 2
    /\ \A b \in mListing : b.by = None
    /\ Len(mOut) = 2

\* C18: each blob name yielded is greater than or equal to the one yielded
\* before it.
C18_SortedOrder ==
    \A i \in 1..(Len(mOut) - 1) : ~NameLess(mOut[i + 1].blob, mOut[i].blob)

\* ------------------------------------------------- claims on SpecGroup

\* C19: in the groups of a built node, an entry that was the integer literal
\* k, k from 1 to the number of projection columns, is the k-th column of the
\* projection, and an entry that was not a literal is the entry itself.
C19_PositionalGroupBy ==
    gpc = "built" =>
        /\ Len(gGroups) = Len(gConfig.groups)
        /\ \A i \in 1..Len(gGroups) :
            LET group == gConfig.groups[i]
            IN  /\ (/\ group.node_type = "LITERAL"
                    /\ group.type = "INTEGER"
                    /\ group.value \in 1..Len(gConfig.projection))
                        => gGroups[i] = gConfig.projection[group.value]
                /\ group.node_type # "LITERAL" => gGroups[i] = group

\* GROUP BY 2, <identifier> over a projection of two different columns
C19_Witness ==
    /\ gpc = "built"
    /\ Len(gConfig.projection) = 2
    /\ gConfig.projection[1] # gConfig.projection[2]
    /\ Len(gConfig.groups) = 2
    /\ gConfig.groups[1] = LiteralNode("INTEGER", 2)
    /\ gConfig.groups[2].node_type = "IDENTIFIER"
    /\ gConfig.groups[2].type = "INTEGER"
    /\ gGroups[1] = gConfig.projection[2]
    /\ gGroups[2] = gConfig.groups[2]

\* ------------------------------------------------- claims on SpecOperators

C22_TwoKindsOfFailure ==
    dError \in {"none", "DatasetNotFoundError", "UnsupportedFileTypeError"}

\* ------------------------------------------------- claims on SpecOperators, on
\* what the operators emit

Ended ==
    \/ jpc \in {"rejected", "done", "failed"}
    \/ apc \in {"done", "failed"}
    \/ xpc \in {"done", "failed"}
    \/ ppc \in {"done", "failed"}
    \/ fpc \in {"done", "failed"}
    \/ gpc \in {"done", "failed"}

\* C25: over producers whose streams are finite, an operator's stream that is
\* pulled for as long as it can be ends or raises after finitely many pulls;
\* and a stream that has ended has emitted as many batches as its producer
\* yielded (Projection, Exit), as its left producer yielded (Join), or exactly
\* one batch (Aggregate, AggregateAndGroup, FunctionDataset).
C25_FiniteStreams ==
    /\ <>Ended
    /\ [](/\ ppc = "done" => Len(pOut) = Len(pIn)
          /\ xpc = "done" => Len(xOut) = xPulls
          /\ jpc = "done" => (Len(jOut) = jLeftPulls /\ Len(jLeft) = jLeftPulls)
          /\ apc = "done" => Len(aOut) = 1
          /\ gpc = "done" => Len(gOut) = 1
          /\ fpc = "done" => Len(fOut) = 1)

\* a Projection has ended after the two batches its producer yielded
C25_Witness ==
    /\ ppc = "done"
    /\ Len(pIn) = 2
    /\ Len(pOut) = 2

\* ------------------------------------------------- claims on SpecGroup, on the
\* offsets that name no column

\* C30: an AggregateAndGroup whose groups hold an integer literal outside
\* 1..n, n the number of projection columns, is not constructed: the
\* constructor raises.
C30_OffsetOutsideRejected ==
    (/\ gpc # "new"
     /\ \E i \in 1..Len(gConfig.groups) :
            /\ IsOffset(gConfig.groups[i])
            /\ gConfig.groups[i].value \notin 1..Len(gConfig.projection))
        => gpc = "failed"

====
